---- MODULE Spec2Model ----
(***************************************************************************)
(* Model of the Binary Ninja function-renaming plugin                      *)
(* (src/reverser_ai/binary_ninja/__init__.py):                             *)
(*   - BinjaFunctionNameGPTManager.get_instance, the lazily constructed    *)
(*     FunctionNameGPTWrapper shared by all plugin functions;              *)
(*   - plugin_wrapper_rename_function, the single-function rename;         *)
(*   - plugin_wrapper_rename_all_functions, the worklist loop that renames *)
(*     callees before callers;                                             *)
(*   - BGTask / BGTaskFunction and the two *_bg entry points, which run    *)
(*     the above on background threads.                                    *)
(* FunctionNameGPTWrapper.apply_suggestion and utils.is_derived_func_name  *)
(* are imported from modules whose source is not part of src/; they are    *)
(* modelled from the specification (NameOracle / RenameApplier,            *)
(* NameClassifier).                                                        *)
(***************************************************************************)
EXTENDS Integers, Sequences, FiniteSets, TLC

\* ------------------------------------------------------------------ bounds

\* Number of background tasks the UI may start.
MaxTasks == 2
\* Length of a function's callee list.
MaxCallees == 2
\* Number of entries the worklist can hold before list.append raises
\* MemoryError (the memory of the machine, in worklist entries).
MaxTodo == 8

\* ------------------------------------------------- the host representation

\* The Function objects of the binary (binaryninja.function.Function).
Funcs == {"main", "helper1", "helper2"}

\* Function names: an auto-generated placeholder, a human-authored name, and
\* the name the model suggests.
PlaceholderNames == {"sub_401000"}
Suggestions == {"parse_header"}
Names == PlaceholderNames \cup {"ParseHeader"} \cup Suggestions

\* Sequences over S without repetition, of length at most n.
InjSeqs(S, n) ==
    {s \in UNION {[1..k -> S] : k \in 0..n} :
        \A i, j \in DOMAIN s : i # j => s[i] # s[j]}

Range(s) == {s[i] : i \in DOMAIN s}

Tasks == 1..MaxTasks

\* The oracle's answer when it has no suggestion (OracleFailure).
NoSuggestion == "<no suggestion>"

VARIABLES
    callees,      \* f.callees for every Function object (a list)
    name,         \* f.name for every Function object
    functions,    \* bv.functions: the functions of the binary view, in order
    instance,     \* manager._binja_function_name_gpt: 0 is None, else an id
    constructed,  \* number of FunctionNameGPTWrapper() constructions so far
    lock,         \* holder of the oracle's lock (0: free)
    kind,         \* per task: "none", "all" (BGTask) or "one" (BGTaskFunction)
    arg,          \* per task: BGTaskFunction.arg
    thread,       \* per task: the thread that executes run(): "none" before the
                  \* task exists, "ui" the control thread, "background" its own
    pc,           \* per task: position in the code
    gpt,          \* per task: the local `gpt`
    done,         \* per task: the local set `done`
    todo,         \* per task: the local list `todo`
    current,      \* per task: the local `current` (or the f being renamed)
    suggestion,   \* per task: the oracle's answer inside apply_suggestion
    doneLog,      \* history: (function, name when found ready) in the order
                  \* done.add(current) ran
    applyLog,     \* history: (function, name at the call) per apply_suggestion call
    failed,       \* history: functions for which the oracle failed
    performedBy,  \* history: threads that constructed, queried or renamed
    pops          \* history: per task and function, the number of todo.pop()
                  \* calls that returned it while it was not in done, and
                  \* while it was

hostVars == <<callees, name, functions>>
mgrVars == <<instance, constructed, lock>>
taskVars == <<kind, arg, thread, pc, gpt, done, todo, current, suggestion>>
histVars == <<doneLog, applyLog, failed, performedBy, pops>>
vars == <<hostVars, mgrVars, taskVars, histVars>>

\* ------------------------------------------------------------ pure helpers

Last(s) == s[Len(s)]
Front(s) == SubSeq(s, 1, Len(s) - 1)

\* utils.is_derived_func_name: TRUE for a name that is not an auto-generated
\* placeholder (NameClassifier.is_meaningful of the specification).
is_derived_func_name(n) == n \notin PlaceholderNames

\* Line 98: if current in done (the popped entry is a stale duplicate).
SkipNever(f, dn) == FALSE
AlreadyDone(f, dn) == f \in dn

\* Line 102: all(callee in done for callee in current.callees).
AnyCalleeDone(f, dn) ==
    callees[f] = <<>> \/ \E i \in DOMAIN callees[f] : callees[f][i] \in dn
Ready(f, dn) == \A i \in DOMAIN callees[f] : callees[f][i] \in dn

\* Line 104: the gate in front of gpt.apply_suggestion(current).
GateInverted(f) == is_derived_func_name(name[f])
ShouldApply(f) == ~is_derived_func_name(name[f])

\* Line 107 on the path that skipped line 105: done.add(current).
DoneAddSkipped(dn, cur) == dn
DoneAdd(dn, cur) == dn \cup {cur}

\* Lines 113-115: the callees of f that are not in dn, in list order.
AllCallees(f, dn) == callees[f]
UndoneCallees(f, dn) == SelectSeq(callees[f], LAMBDA c : c \notin dn)

\* Lines 110-115: the worklist after current and its undone callees are
\* appended to rest.
RequeuedWithoutCurrent(rest, cur, dn) == rest \o UndoneCallees(cur, dn)
Requeued(rest, cur, dn) == Append(rest, cur) \o UndoneCallees(cur, dn)

\* background_task.start() (lines 185, 205) runs run() on a thread of its
\* own; calling run() directly would run it on the caller's thread.
RunOnCaller == "ui"
StartedThread == "background"

Ended(t) == pc[t] \in {"finished", "MemoryError"}

\* The UI thread is inside a call that has not returned.
UIBusy == \E t \in Tasks : thread[t] = "ui" /\ ~Ended(t)

\* ------------------------------------------------------------------ Init

Graphs == [Funcs -> InjSeqs(Funcs, MaxCallees)]
Namings == [Funcs -> PlaceholderNames \cup {"ParseHeader"}]
Snapshots == InjSeqs(Funcs, Cardinality(Funcs)) \ {<<>>}

InitTasks ==
    /\ instance = 0
    /\ constructed = 0
    /\ lock = 0
    /\ arg = [t \in Tasks |-> "main"]
    /\ gpt = [t \in Tasks |-> 0]
    /\ done = [t \in Tasks |-> {}]
    /\ todo = [t \in Tasks |-> <<>>]
    /\ current = [t \in Tasks |-> "main"]
    /\ suggestion = [t \in Tasks |-> NoSuggestion]
    /\ doneLog = [t \in Tasks |-> <<>>]
    /\ applyLog = [t \in Tasks |-> <<>>]
    /\ failed = [t \in Tasks |-> {}]
    /\ performedBy = {}
    /\ pops = [t \in Tasks |-> [f \in Funcs |-> <<0, 0>>]]

\* One whole-program rename, already started in the background, over any
\* call graph, naming and snapshot.
Init ==
    /\ callees \in Graphs
    /\ name \in Namings
    /\ functions \in Snapshots
    /\ InitTasks
    /\ kind = [t \in Tasks |-> IF t = 1 THEN "all" ELSE "none"]
    /\ thread = [t \in Tasks |-> IF t = 1 THEN StartedThread ELSE "none"]
    /\ pc = [t \in Tasks |-> IF t = 1 THEN "get_instance" ELSE "idle"]

\* --------------------------------------------- manager.get_instance (25-36)

\* Line 34: if self._binja_function_name_gpt is None.
GetInstanceCheck(t) ==
    /\ pc[t] = "get_instance"
    /\ pc' = [pc EXCEPT ![t] = IF instance = 0 THEN "construct"
                                               ELSE "return_instance"]
    /\ UNCHANGED <<hostVars, mgrVars, kind, arg, thread, gpt, done, todo,
                   current, suggestion, histVars>>

\* Line 35: FunctionNameGPTWrapper() runs (it loads the model), then its
\* result is stored in the manager.
Construct(t) ==
    /\ pc[t] = "construct"
    /\ constructed' = constructed + 1
    /\ instance' = constructed + 1
    /\ performedBy' = performedBy \cup {thread[t]}
    /\ pc' = [pc EXCEPT ![t] = "return_instance"]
    /\ UNCHANGED <<hostVars, lock, kind, arg, thread, gpt, done, todo,
                   current, suggestion, doneLog, applyLog, failed, pops>>

\* ReturnInstance with a classifier gate in front of line 58, as the
\* whole-program loop has one in front of line 105.
ReturnInstanceGated(t) ==
    /\ pc[t] = "return_instance"
    /\ gpt' = [gpt EXCEPT ![t] = instance]
    /\ IF kind[t] = "all"
       THEN /\ pc' = [pc EXCEPT ![t] = "init"]
            /\ UNCHANGED <<current, applyLog>>
       ELSE IF is_derived_func_name(name[arg[t]])
       THEN /\ pc' = [pc EXCEPT ![t] = "finished"]
            /\ UNCHANGED <<current, applyLog>>
       ELSE /\ pc' = [pc EXCEPT ![t] = "acquire"]
            /\ current' = [current EXCEPT ![t] = arg[t]]
            /\ applyLog' = [applyLog EXCEPT
                              ![t] = Append(@, <<arg[t], name[arg[t]]>>)]
    /\ UNCHANGED <<hostVars, mgrVars, kind, arg, thread, done, todo,
                   suggestion, doneLog, failed, performedBy, pops>>

\* Line 36: return self._binja_function_name_gpt; the caller stores it in
\* its local gpt (lines 55, 78). plugin_wrapper_rename_function then calls
\* gpt.apply_suggestion(f) (line 58).
ReturnInstance(t) ==
    /\ pc[t] = "return_instance"
    /\ gpt' = [gpt EXCEPT ![t] = instance]
    /\ IF kind[t] = "all"
       THEN /\ pc' = [pc EXCEPT ![t] = "init"]
            /\ UNCHANGED <<current, applyLog>>
       ELSE /\ pc' = [pc EXCEPT ![t] = "acquire"]
            /\ current' = [current EXCEPT ![t] = arg[t]]
            /\ applyLog' = [applyLog EXCEPT
                              ![t] = Append(@, <<arg[t], name[arg[t]]>>)]
    /\ UNCHANGED <<hostVars, mgrVars, kind, arg, thread, done, todo,
                   suggestion, doneLog, failed, performedBy, pops>>

\* ------------------------- FunctionNameGPTWrapper.apply_suggestion (58, 105)

\* The oracle serializes concurrent callers: a caller proceeds only while no
\* other caller is inside apply_suggestion.
LockIgnored == TRUE
LockFree == lock = 0

Acquire(t) ==
    /\ pc[t] = "acquire"
    /\ LockFree
    /\ lock' = t
    /\ pc' = [pc EXCEPT ![t] = "query"]
    /\ UNCHANGED <<hostVars, instance, constructed, kind, arg, thread, gpt,
                   done, todo, current, suggestion, histVars>>

\* The model is queried for a name; it answers with one, or fails, which
\* reaches the caller as "no suggestion" and not as an exception.
Query(t) ==
    /\ pc[t] = "query"
    /\ \E s \in Suggestions \cup {NoSuggestion} :
          /\ suggestion' = [suggestion EXCEPT ![t] = s]
          /\ failed' = [failed EXCEPT ![t] =
                           IF s = NoSuggestion THEN @ \cup {current[t]} ELSE @]
    /\ performedBy' = performedBy \cup {thread[t]}
    /\ pc' = [pc EXCEPT ![t] = "rename"]
    /\ UNCHANGED <<hostVars, mgrVars, kind, arg, thread, gpt, done, todo,
                   current, doneLog, applyLog, pops>>

\* A suggestion is applied to the function in the host representation; then
\* apply_suggestion returns. Without a suggestion the name is left alone.
Rename(t) ==
    /\ pc[t] = "rename"
    /\ name' = IF suggestion[t] = NoSuggestion THEN name
                ELSE [name EXCEPT ![current[t]] = suggestion[t]]
    /\ performedBy' = performedBy \cup {thread[t]}
    /\ lock' = IF lock = t THEN 0 ELSE lock
    /\ pc' = [pc EXCEPT ![t] = IF kind[t] = "all" THEN "mark_done"
                                                 ELSE "finished"]
    /\ UNCHANGED <<callees, functions, instance, constructed, kind, arg,
                   thread, gpt, done, todo, current, suggestion, doneLog,
                   applyLog, failed, pops>>

\* ----------------------------- plugin_wrapper_rename_all_functions (61-115)

\* Lines 82-90 with done kept in one set for all runs instead of a local.
InitWorklistShared(t) ==
    /\ pc[t] = "init"
    /\ done' = [done EXCEPT ![t] = UNION {done[u] : u \in Tasks}]
    /\ todo' = [todo EXCEPT ![t] = SelectSeq(functions, LAMBDA f : f \notin {})]
    /\ pc' = [pc EXCEPT ![t] = "loop"]
    /\ UNCHANGED <<hostVars, mgrVars, kind, arg, thread, gpt, current,
                   suggestion, histVars>>

\* Lines 82-90: done = set(); todo = every function of bv.functions.
InitWorklist(t) ==
    /\ pc[t] = "init"
    /\ done' = [done EXCEPT ![t] = {}]
    /\ todo' = [todo EXCEPT ![t] = SelectSeq(functions, LAMBDA f : f \notin {})]
    /\ pc' = [pc EXCEPT ![t] = "loop"]
    /\ UNCHANGED <<hostVars, mgrVars, kind, arg, thread, gpt, current,
                   suggestion, histVars>>

\* Lines 110-115 for task t: todo.append(current), then every callee not in
\* dn; list.append raises MemoryError when the list cannot grow.
Requeue(t, rest, cur, dn) ==
    LET new == Requeued(rest, cur, dn)
    IN  IF Len(new) > MaxTodo
        THEN /\ todo' = [todo EXCEPT ![t] = SubSeq(new, 1, MaxTodo)]
             /\ pc' = [pc EXCEPT ![t] = "MemoryError"]
        ELSE /\ todo' = [todo EXCEPT ![t] = new]
             /\ pc' = [pc EXCEPT ![t] = "loop"]

\* Line 95: the history of todo.pop() after it returned f, which was not in
\* done, or was.
PoppedUndone(t, f) == [pops EXCEPT ![t][f] = <<@[1] + 1, @[2]>>]
PoppedDone(t, f) == [pops EXCEPT ![t][f] = <<@[1], @[2] + 1>>]

\* Line 93: the loop ends when todo is empty.
LoopExit(t) ==
    /\ pc[t] = "loop"
    /\ todo[t] = <<>>
    /\ pc' = [pc EXCEPT ![t] = "finished"]
    /\ UNCHANGED <<hostVars, mgrVars, kind, arg, thread, gpt, done, todo,
                   current, suggestion, histVars>>

\* Lines 95-99: pop; a function already in done is skipped.
PopDone(t) ==
    /\ pc[t] = "loop"
    /\ todo[t] # <<>>
    /\ AlreadyDone(Last(todo[t]), done[t])
    /\ todo' = [todo EXCEPT ![t] = Front(@)]
    /\ current' = [current EXCEPT ![t] = Last(todo[t])]
    /\ pops' = PoppedDone(t, Last(todo[t]))
    /\ UNCHANGED <<hostVars, mgrVars, kind, arg, thread, pc, gpt, done,
                   suggestion, doneLog, applyLog, failed, performedBy>>

\* Lines 95-115 for a function that is not ready: it is requeued with its
\* undone callees.
PopUnready(t) ==
    /\ pc[t] = "loop"
    /\ todo[t] # <<>>
    /\ LET cur == Last(todo[t])
       IN  /\ ~AlreadyDone(cur, done[t])
           /\ ~Ready(cur, done[t])
           /\ current' = [current EXCEPT ![t] = cur]
           /\ pops' = PoppedUndone(t, cur)
           /\ Requeue(t, Front(todo[t]), cur, done[t])
    /\ UNCHANGED <<hostVars, mgrVars, kind, arg, thread, gpt, done,
                   suggestion, doneLog, applyLog, failed, performedBy>>

\* Lines 95-115 for a ready function whose name passes no rename: it is
\* added to done and requeued.
PopReadySkip(t) ==
    /\ pc[t] = "loop"
    /\ todo[t] # <<>>
    /\ LET cur == Last(todo[t])
       IN  /\ ~AlreadyDone(cur, done[t])
           /\ Ready(cur, done[t])
           /\ ~ShouldApply(cur)
           /\ current' = [current EXCEPT ![t] = cur]
           /\ done' = [done EXCEPT ![t] = DoneAdd(@, cur)]
           /\ doneLog' = [doneLog EXCEPT ![t] = Append(@, <<cur, name[cur]>>)]
           /\ pops' = PoppedUndone(t, cur)
           /\ Requeue(t, Front(todo[t]), cur, DoneAdd(done[t], cur))
    /\ UNCHANGED <<hostVars, mgrVars, kind, arg, thread, gpt, suggestion,
                   applyLog, failed, performedBy>>

\* Lines 95-105 for a ready function that is to be renamed: the call of
\* gpt.apply_suggestion(current).
PopReadyApply(t) ==
    /\ pc[t] = "loop"
    /\ todo[t] # <<>>
    /\ LET cur == Last(todo[t])
       IN  /\ ~AlreadyDone(cur, done[t])
           /\ Ready(cur, done[t])
           /\ ShouldApply(cur)
           /\ current' = [current EXCEPT ![t] = cur]
           /\ pops' = PoppedUndone(t, cur)
           /\ todo' = [todo EXCEPT ![t] = Front(@)]
           /\ applyLog' = [applyLog EXCEPT ![t] = Append(@, <<cur, name[cur]>>)]
    /\ pc' = [pc EXCEPT ![t] = "acquire"]
    /\ UNCHANGED <<hostVars, mgrVars, kind, arg, thread, gpt, done,
                   suggestion, doneLog, failed, performedBy>>

\* Lines 107-115 once apply_suggestion has returned.
MarkDone(t) ==
    /\ pc[t] = "mark_done"
    /\ done' = [done EXCEPT ![t] = @ \cup {current[t]}]
    /\ doneLog' = [doneLog EXCEPT
                     ![t] = Append(@, <<current[t], Last(applyLog[t])[2]>>)]
    /\ Requeue(t, todo[t], current[t], done[t] \cup {current[t]})
    /\ UNCHANGED <<hostVars, mgrVars, kind, arg, thread, gpt, current,
                   suggestion, applyLog, failed, performedBy, pops>>

\* One step of the code task t runs, on whichever thread runs it.
TaskStep(t) ==
    \/ GetInstanceCheck(t)
    \/ Construct(t)
    \/ ReturnInstance(t)
    \/ Acquire(t)
    \/ Query(t)
    \/ Rename(t)
    \/ InitWorklist(t)
    \/ LoopExit(t)
    \/ PopDone(t)
    \/ PopUnready(t)
    \/ PopReadySkip(t)
    \/ PopReadyApply(t)
    \/ MarkDone(t)

Next == \E t \in Tasks : TaskStep(t)

Spec == Init /\ [][Next]_vars

\* ------------------------------------------ the background entry points

\* The next task object the UI thread creates.
FreshTask(t) == kind[t] = "none" /\ \A u \in Tasks : u < t => kind[u] # "none"

\* Lines 170-185: BGTask(bv, msg, plugin_wrapper_rename_all_functions) is
\* created and started; the entry point returns.
plugin_wrapper_rename_all_functions_bg(t) ==
    /\ ~UIBusy
    /\ FreshTask(t)
    /\ kind' = [kind EXCEPT ![t] = "all"]
    /\ thread' = [thread EXCEPT ![t] = StartedThread]
    /\ pc' = [pc EXCEPT ![t] = "get_instance"]
    /\ UNCHANGED <<hostVars, mgrVars, arg, gpt, done, todo, current,
                   suggestion, histVars>>

\* Lines 188-205: BGTaskFunction(bv, msg, plugin_wrapper_rename_function, f)
\* is created and started; the entry point returns.
plugin_wrapper_rename_function_bg(t, f) ==
    /\ ~UIBusy
    /\ FreshTask(t)
    /\ kind' = [kind EXCEPT ![t] = "one"]
    /\ arg' = [arg EXCEPT ![t] = f]
    /\ thread' = [thread EXCEPT ![t] = StartedThread]
    /\ pc' = [pc EXCEPT ![t] = "get_instance"]
    /\ UNCHANGED <<hostVars, mgrVars, gpt, done, todo, current, suggestion,
                   histVars>>

\* The binary of the specification's scenario: main -> helper1 -> helper2.
ChainGraph ==
    [f \in Funcs |-> CASE f = "main" -> <<"helper1">>
                        [] f = "helper1" -> <<"helper2">>
                        [] OTHER -> <<>>]

\* A binary of two functions, main -> helper1, for the concurrent runs.
PairGraph ==
    [f \in Funcs |-> IF f = "main" THEN <<"helper1">> ELSE <<>>]

\* The plugin is loaded and no command has been issued; the user then issues
\* commands from the UI thread while earlier ones are still running.
ConcInit ==
    /\ callees = PairGraph
    /\ name \in {n \in Namings : \A f \in {"main", "helper2"} :
                                   n[f] \in PlaceholderNames}
    /\ functions = <<"helper1", "main">>
    /\ InitTasks
    /\ kind = [t \in Tasks |-> "none"]
    /\ thread = [t \in Tasks |-> "none"]
    /\ pc = [t \in Tasks |-> "idle"]

ConcNext ==
    \/ \E t \in Tasks : plugin_wrapper_rename_all_functions_bg(t)
    \/ \E t \in Tasks : \E f \in Range(functions) :
          plugin_wrapper_rename_function_bg(t, f)
    \/ \E t \in Tasks : TaskStep(t)

SpecConc == ConcInit /\ [][ConcNext]_vars

\* ------------------------------------------------- call-graph vocabulary

CalleeSet(f) == Range(callees[f])

\* The functions reachable from the functions of S by at most n calls.
RECURSIVE ReachWithin(_, _)
ReachWithin(S, n) ==
    IF n = 0 THEN S
    ELSE ReachWithin(S \cup UNION {CalleeSet(f) : f \in S}, n - 1)

\* There is a call path (possibly empty) from f to g.
Reaches(f, g) == g \in ReachWithin({f}, Cardinality(Funcs))

\* f lies on a call cycle (a self-call included).
OnCycle(f) == \E c \in CalleeSet(f) : Reaches(c, f)

\* No call cycle is reachable from f.
CycleFree(f) == \A g \in Funcs : Reaches(f, g) => ~OnCycle(g)

\* The functions of s, a log of (function, name) pairs.
LogFuncs(s) == [i \in DOMAIN s |-> s[i][1]]
DoneFuncs(t) == LogFuncs(doneLog[t])
AppliedFuncs(t) == LogFuncs(applyLog[t])

\* B entered done before A did, in task t.
DoneBefore(t, B, A) ==
    \E i, j \in DOMAIN doneLog[t] :
        i < j /\ doneLog[t][i][1] = B /\ doneLog[t][j][1] = A

IsPrefix(s, r) == Len(s) <= Len(r) /\ SubSeq(r, 1, Len(s)) = s

\* ------------------------------------------------------------------ claims

\* C1: in a run of plugin_wrapper_rename_all_functions, whenever B is a callee
\* of A and no call path leads from B back to A, B is added to done strictly
\* before A is, and B is in done whenever apply_suggestion has been invoked
\* for A.
C1_CalleeDoneBeforeCaller ==
    \A t \in Tasks :
        kind[t] = "all" =>
            \A A \in done[t] \cup Range(AppliedFuncs(t)) :
                \A B \in CalleeSet(A) :
                    ~Reaches(B, A) =>
                        /\ B \in done[t]
                        /\ A \in done[t] => DoneBefore(t, B, A)

\* A caller with two callees, none calling back, was renamed after both.
C1_Witness ==
    \E A \in Funcs :
        /\ Cardinality(CalleeSet(A)) = 2
        /\ \A B \in CalleeSet(A) : ~Reaches(B, A) /\ DoneBefore(1, B, A)
        /\ A \in Range(AppliedFuncs(1))
        /\ A \in done[1]

\* C3: in a whole-program run apply_suggestion is never invoked for a function
\* whose name is_derived_func_name classifies as meaningful when the function
\* is found ready.
C3_NoApplyForMeaningfulName ==
    \A t \in Tasks :
        kind[t] = "all" =>
            /\ \A i \in DOMAIN applyLog[t] :
                  ~is_derived_func_name(applyLog[t][i][2])
            /\ \A i \in DOMAIN doneLog[t] :
                  is_derived_func_name(doneLog[t][i][2]) =>
                      doneLog[t][i][1] \notin Range(AppliedFuncs(t))

\* A run finalized a meaningfully named function without a call and called
\* apply_suggestion for a placeholder-named one.
C3_Witness ==
    /\ pc[1] = "finished"
    /\ \E i \in DOMAIN doneLog[1] :
          /\ is_derived_func_name(doneLog[1][i][2])
          /\ doneLog[1][i][1] \notin Range(AppliedFuncs(1))
    /\ applyLog[1] # <<>>

\* C2: for every finite call graph, self-recursion and call cycles included,
\* the worklist loop terminates: a run ends only by leaving the loop with an
\* empty worklist.
C2_WorklistLoopTerminates ==
    \A t \in Tasks :
        (kind[t] = "all" /\ Ended(t)) => (pc[t] = "finished" /\ todo[t] = <<>>)

\* C5: if the oracle fails for a function X during a whole-program run, then
\* by the end of the run X is unrenamed and in done, and every other function
\* of the snapshot is in done too.
C5_FailureDoesNotAbortRun ==
    \A t \in Tasks : \A X \in failed[t] :
        (kind[t] = "all" /\ Ended(t)) =>
            /\ X \in done[t]
            /\ ~is_derived_func_name(name[X])
            /\ \A f \in Range(functions) : f \in done[t]

\* C10: for every call graph and worklist order, every function of the
\* snapshot from which no call cycle is reachable has been added to done by
\* the end of the run, after an apply_suggestion call if its name was a
\* placeholder.
C10_CycleFreeFunctionsFinalized ==
    \A t \in Tasks : \A f \in Range(functions) :
        (kind[t] = "all" /\ Ended(t) /\ CycleFree(f)) =>
            /\ f \in done[t]
            /\ \A i \in DOMAIN doneLog[t] :
                  (doneLog[t][i][1] = f /\ ~is_derived_func_name(doneLog[t][i][2]))
                      => f \in Range(AppliedFuncs(t))

\* A run over a snapshot that holds a function on a call cycle never leaves
\* the loop, whatever the memory bound: that function is never ready, and
\* every pop of it puts it back on the worklist.
CycleInSnapshotNeverFinishes ==
    \A t \in Tasks :
        (kind[t] = "all" /\ \E f \in Range(functions) : OnCycle(f))
            => pc[t] # "finished"

\* The step of C7: the function popped is not in done and all its callees are.
C7_ReadyPop(t) ==
    /\ pc[t] = "loop"
    /\ todo[t] # <<>>
    /\ Last(todo[t]) \notin done[t]
    /\ CalleeSet(Last(todo[t])) \subseteq done[t]

\* C7: a function whose name is classified as meaningful is, at the pop that
\* finds all its callees done, added to done without an oracle call; being
\* in done it no longer holds back a caller, which at the pop that finds all
\* its callees done has apply_suggestion invoked if its name is a placeholder.
C7_MeaningfulFinalizedWithoutOracle ==
    /\ [](\A t \in Tasks : \A i \in DOMAIN doneLog[t] :
            is_derived_func_name(doneLog[t][i][2]) =>
                /\ doneLog[t][i][1] \notin Range(AppliedFuncs(t))
                /\ doneLog[t][i][1] \notin failed[t]
                /\ name[doneLog[t][i][1]] = doneLog[t][i][2])
    /\ [][\A t \in Tasks : C7_ReadyPop(t) =>
            LET cur == Last(todo[t])
            IN  IF is_derived_func_name(name[cur])
                THEN /\ done'[t] = done[t] \cup {cur}
                     /\ applyLog'[t] = applyLog[t]
                     /\ pc'[t] # "acquire"
                     /\ name' = name
                ELSE /\ pc'[t] = "acquire"
                     /\ current'[t] = cur
                     /\ applyLog'[t] = Append(applyLog[t], <<cur, name[cur]>>)]_vars

\* A meaningfully named function was finalized without an oracle call, and
\* then its placeholder-named caller, whose only callee it is, was renamed.
C7_Witness ==
    \E A, B \in Funcs :
        /\ CalleeSet(A) = {B}
        /\ \E i, j \in DOMAIN doneLog[1] :
              /\ i < j
              /\ doneLog[1][i] = <<B, "ParseHeader">>
              /\ doneLog[1][j][1] = A
              /\ ~is_derived_func_name(doneLog[1][j][2])
        /\ B \notin Range(AppliedFuncs(1))
        /\ A \in Range(AppliedFuncs(1))
        /\ name[A] \in Suggestions

\* The scenario of C8: main -> helper1 -> helper2, the three in the snapshot
\* in any order, none of them meaningfully named by a human.
C8_Scenario ==
    /\ callees = ChainGraph
    /\ Range(functions) = Funcs
    /\ \A f \in Funcs : name[f] # "ParseHeader"

\* C8: for main -> helper1 -> helper2 with placeholder names and any initial
\* worklist order, the run finalizes helper2, then helper1, then main, and
\* invokes apply_suggestion exactly once for each, in that order.
C8_ChainFinalizedLeafFirst ==
    C8_Scenario =>
        /\ IsPrefix(DoneFuncs(1), <<"helper2", "helper1", "main">>)
        /\ IsPrefix(AppliedFuncs(1), <<"helper2", "helper1", "main">>)
        /\ done[1] = Range(DoneFuncs(1))
        /\ pc[1] # "MemoryError"
        /\ pc[1] = "finished" =>
              /\ DoneFuncs(1) = <<"helper2", "helper1", "main">>
              /\ AppliedFuncs(1) = <<"helper2", "helper1", "main">>

\* The scenario's run has finished, from a worklist whose top was main.
C8_Witness ==
    /\ C8_Scenario
    /\ functions = <<"helper2", "helper1", "main">>
    /\ pc[1] = "finished"
    /\ AppliedFuncs(1) = <<"helper2", "helper1", "main">>

\* C4: across any interleaving of background tasks that call
\* manager.get_instance(), FunctionNameGPTWrapper is constructed at most once
\* and every caller obtains the same instance.
C4_ConstructedAtMostOnce ==
    /\ constructed <= 1
    /\ \A t, u \in Tasks : (gpt[t] # 0 /\ gpt[u] # 0) => gpt[t] = gpt[u]

\* The UI thread can issue its next command.
UICanStart ==
    ENABLED (\E t \in Tasks : plugin_wrapper_rename_all_functions_bg(t))

\* C6: each background entry point only creates and starts a worker and
\* returns: no task runs on the UI thread, the UI thread never constructs
\* the oracle, queries it or renames, and while a task object is left to
\* create it can take its next step whatever state the workers are in.
C6_UIThreadNeverBlocks ==
    /\ \A t \in Tasks : thread[t] # "ui"
    /\ "ui" \notin performedBy
    /\ ~UIBusy
    /\ (\E t \in Tasks : kind[t] = "none") => UICanStart

\* A whole-program rename is inside the oracle on its background thread
\* and the UI thread is free to issue the next command.
C6_Witness ==
    /\ kind[1] = "all"
    /\ pc[1] = "query"
    /\ thread[1] = "background"
    /\ performedBy = {"background"}
    /\ kind[2] = "none"
    /\ UICanStart

\* The tasks inside an oracle query or a rename of the host representation.
InsideApply == {t \in Tasks : pc[t] \in {"query", "rename"}}

NoDuplicates(s) == \A i, j \in DOMAIN s : i # j => s[i] # s[j]

\* C12: within one whole-program run done only grows, and each function is
\* finalized at most once: done.add runs at most once per function, and so
\* does apply_suggestion, although the worklist holds duplicate entries.
C12_DoneGrowsEachFunctionOnce ==
    /\ [](\A t \in Tasks :
            kind[t] = "all" =>
                /\ NoDuplicates(DoneFuncs(t))
                /\ NoDuplicates(AppliedFuncs(t))
                /\ Range(DoneFuncs(t)) = done[t])
    /\ [][\A t \in Tasks : done[t] \subseteq done'[t]]_vars

\* A function was renamed and added to done once, and two further entries
\* of the worklist for it were popped and discarded.
C12_Witness ==
    \E f \in Funcs :
        /\ f \in done[1]
        /\ f \in Range(AppliedFuncs(1))
        /\ pops[1][f] = <<1, 2>>

\* The callee references that do not resolve to a function of the snapshot.
Dangling == Funcs \ Range(functions)

\* C13: a callee reference that is not in bv.functions is skipped: it is
\* never passed to apply_suggestion, and it never blocks its caller: a
\* function popped with all its callees that are in the snapshot done is
\* finalized at that pop.
C13_DanglingCalleeSkipped ==
    /\ [](\A t \in Tasks : \A f \in Dangling :
            kind[t] = "all" => f \notin Range(AppliedFuncs(t)))
    /\ [][\A t \in Tasks :
            (/\ pc[t] = "loop"
             /\ todo[t] # <<>>
             /\ Last(todo[t]) \notin done[t]
             /\ CalleeSet(Last(todo[t])) \ Dangling \subseteq done[t])
                => (Last(todo[t]) \in done'[t] \/ pc'[t] = "acquire")]_vars

\* ------------------------------------------------------ locals of a run

\* The locals of the run of task t (lines 82-95).
RunLocals(t) == <<done[t], todo[t], current[t]>>

\* C14: done and the worklist are local to one whole-program run. Every run
\* starts with an empty done set and a worklist holding each function of
\* bv.functions once; every function in its done set was added by the run
\* itself; and a step that changes the done set or the worklist of one run
\* is not a step of any other task, whose position and locals it leaves as
\* they were.
C14_RunStateIsLocal ==
    /\ [](\A t \in Tasks :
            kind[t] = "all" => Range(DoneFuncs(t)) = done[t])
    /\ [][\A t \in Tasks :
            /\ (pc[t] = "init" /\ pc'[t] = "loop")
                => (done'[t] = {} /\ todo'[t] = functions)
            /\ (done'[t] # done[t] \/ todo'[t] # todo[t])
                => \A u \in Tasks \ {t} :
                       /\ pc'[u] = pc[u]
                       /\ kind'[u] = kind[u]
                       /\ RunLocals(u)' = RunLocals(u)]_vars

\* A second whole-program run stands at the head of its loop with an empty
\* done set and the full worklist after the first run has finished with
\* every function done.
C14_Witness ==
    /\ kind[1] = "all" /\ kind[2] = "all"
    /\ pc[1] = "finished"
    /\ done[1] = Range(functions)
    /\ pc[2] = "loop"
    /\ done[2] = {}
    /\ todo[2] = functions

\* ------------------------------------------------ shape of done and todo

\* C16: at every state of a whole-program run done is closed under callees:
\* a function in done has every callee in done. So a function that calls
\* itself, lies on a call cycle or reaches one is never in done.
C16_DoneClosedUnderCallees ==
    \A t \in Tasks :
        kind[t] = "all" =>
            /\ \A f \in done[t] : CalleeSet(f) \subseteq done[t]
            /\ \A f \in Funcs : ~CycleFree(f) => f \notin done[t]

\* A caller is in done together with its callee while a function on a call
\* cycle has been popped and is not in done.
C16_Witness ==
    /\ kind[1] = "all"
    /\ \E f \in done[1] : CalleeSet(f) # {} /\ CalleeSet(f) \subseteq done[1]
    /\ \E h \in Range(functions) :
           /\ OnCycle(h)
           /\ pops[1][h][1] > 0
           /\ h \notin done[1]

\* C18: at the head of every iteration of the worklist loop every function
\* of bv.functions that is not in done occurs in the worklist.
C18_UndoneFunctionsInWorklist ==
    \A t \in Tasks :
        (kind[t] = "all" /\ pc[t] = "loop") =>
            \A f \in Range(functions) \ done[t] : f \in Range(todo[t])

\* At the head of the loop a stale entry of a done function is on top of the
\* worklist while a popped and requeued function is still undone below it.
C18_Witness ==
    /\ kind[1] = "all"
    /\ pc[1] = "loop"
    /\ todo[1] # <<>>
    /\ Last(todo[1]) \in done[1]
    /\ \E f \in Range(functions) \ done[1] :
           pops[1][f][1] > 0 /\ f \in Range(todo[1])

\* ------------------------------------------------- runs over acyclic graphs

\* The snapshot is a call graph of its own: every callee of a snapshot
\* function is in the snapshot, and no snapshot function is on a call cycle.
AcyclicSnapshot ==
    /\ \A f \in Range(functions) : CalleeSet(f) \subseteq Range(functions)
    /\ \A f \in Range(functions) : ~OnCycle(f)

AcyclicInit == Init /\ AcyclicSnapshot

\* The background thread of a started task keeps running.
SpecAcyclic == AcyclicInit /\ [][Next]_vars /\ WF_vars(Next)

\* V and E of the snapshot's call graph.
NumFunctions == Len(functions)
RECURSIVE SumCallees(_)
SumCallees(S) ==
    IF S = {} THEN 0
    ELSE LET f == CHOOSE x \in S : TRUE
         IN  Len(callees[f]) + SumCallees(S \ {f})
NumEdges == SumCallees(Range(functions))

RECURSIVE SumPops(_, _)
SumPops(t, S) ==
    IF S = {} THEN 0
    ELSE LET f == CHOOSE x \in S : TRUE
         IN  pops[t][f][1] + pops[t][f][2] + SumPops(t, S \ {f})
TotalPops(t) == SumPops(t, Funcs)

\* What C15 says of a run that has left the loop.
C15_FinalState(t) ==
    /\ done[t] = Range(functions)
    /\ Range(DoneFuncs(t)) = Range(functions)
    /\ NoDuplicates(AppliedFuncs(t))
    /\ \A i \in DOMAIN doneLog[t] :
          ~is_derived_func_name(doneLog[t][i][2])
              <=> doneLog[t][i][1] \in Range(AppliedFuncs(t))

\* C15: for every acyclic call graph and initial worklist order the run
\* terminates, and then done is the set of the snapshot's functions and
\* apply_suggestion was invoked exactly once for each placeholder-named
\* function and never for another.
C15_AcyclicRunCoversSnapshot ==
    /\ <>(pc[1] = "finished")
    /\ [](pc[1] # "MemoryError")
    /\ [](pc[1] = "finished" => C15_FinalState(1))

\* A run over three functions, two of them callers, has finished, with a
\* rename of some functions and none of the others.
C15_Witness ==
    /\ pc[1] = "finished"
    /\ Len(functions) = 3
    /\ Cardinality({f \in Funcs : callees[f] # <<>>}) = 2
    /\ Len(applyLog[1]) = 2
    /\ C15_FinalState(1)

\* C17: for an acyclic call graph with V functions and E caller-callee edges
\* the loop performs at most 3*V + E pops, and each function is popped while
\* not in done at most twice: at most once unready and once ready.
C17_PopBound ==
    \A t \in Tasks :
        kind[t] = "all" =>
            /\ TotalPops(t) <= 3 * NumFunctions + NumEdges
            /\ \A f \in Funcs :
                  /\ pops[t][f][1] <= 2
                  /\ pops[t][f][1] = 2 =>
                        \/ f \in done[t]
                        \/ current[t] = f /\ pc[t] \in
                              {"acquire", "query", "rename", "mark_done"}

\* A run over three functions and three edges has finished after 11 pops,
\* two of them of the same function before it was done.
C17_Witness ==
    /\ pc[1] = "finished"
    /\ NumFunctions = 3
    /\ NumEdges = 3
    /\ TotalPops(1) = 11
    /\ \E f \in Funcs : pops[1][f][1] = 2

====
